---- MODULE Spec2Model ----
(***************************************************************************)
(* Kyber-768 KEM of liboqs-PQ-BRAKE: the CCA transform of kem.c with its   *)
(* custom-secret variants, and the backend dispatcher of kem_kyber_768.c.  *)
(*                                                                         *)
(* Memory is modelled in cells of one 32-byte word (KYBER_SYMBYTES bytes): *)
(* every length and offset of the code is a multiple of 32, so a cell is   *)
(* the unit the code itself works in. A cell holds a value of Word.        *)
(* The lattice primitive, the hashes and verify/cmov are outside the       *)
(* sources; they are small stand-ins with the contracts of the             *)
(* specification: decryption inverts encryption under the matching key,    *)
(* encryption is a function of (message, pk, coins), the hashes are        *)
(* functions that are not the identity.                                    *)
(***************************************************************************)
EXTENDS Integers, Sequences, FiniteSets, TLC

\* ---------------------------------------------------------------- bounds
\* number of distinct values a memory cell can hold
NumWords == 3

Word == 0..(NumWords - 1)

\* ------------------------------------------------- parameters (params.h)
\* sizes in cells of 32 bytes
KYBER_SYMBYTES == 1
KYBER_SSBYTES == 1
KYBER_INDCPA_MSGBYTES == 1
KYBER_INDCPA_PUBLICKEYBYTES == 1
KYBER_INDCPA_SECRETKEYBYTES == 1
KYBER_INDCPA_BYTES == 2
KYBER_PUBLICKEYBYTES == KYBER_INDCPA_PUBLICKEYBYTES
KYBER_SECRETKEYBYTES == KYBER_INDCPA_SECRETKEYBYTES + KYBER_INDCPA_PUBLICKEYBYTES + 2*KYBER_SYMBYTES
KYBER_CIPHERTEXTBYTES == KYBER_INDCPA_BYTES

\* the loops of kem.c copy this many bytes: 32 bytes, one cell
CopyLoopCells == KYBER_SYMBYTES

OQS_SUCCESS == 0
OQS_ERROR == -1

\* ------------------------------------------------------- memory helpers
\* cells [off, off+n) of a buffer, offsets counted from 0 as in C
Sub(mem, off, n) == [i \in 1..n |-> mem[off + i]]

\* memcpy(mem+off, data, Len(data)): the cells it covers are overwritten
Store(mem, off, data) ==
    [i \in 1..Len(mem) |->
        IF i > off /\ i <= off + Len(data) THEN data[i - off] ELSE mem[i]]

RECURSIVE WSum(_)
\* weighted sum of the cells of a buffer
WSum(s) == IF s = <<>> THEN 0 ELSE Len(s) * s[Len(s)] + WSum(SubSeq(s, 1, Len(s) - 1))

\* --------------------------------------------- hashes (symmetric.h)
hash_h(in) == << (WSum(in) + 1) % NumWords >>

hash_g(in) == << (WSum(in) + 2) % NumWords, (in[1] + 2 * WSum(in) + 1) % NumWords >>

kdf(in) == << (in[1] + 2 * in[2] + 2) % NumWords >>

\* --------------------------------------------- constant-time (verify.h)
verify(a, b, len) == IF Sub(a, 0, len) = Sub(b, 0, len) THEN 0 ELSE 1

cmov(r, x, len, b) == IF b # 0 THEN Store(r, 0, Sub(x, 0, len)) ELSE r

\* --------------------------------------------- lattice primitive (indcpa.h)
\* key generation from the coins it draws (or is handed)
indcpa_keygen(s) == [pk |-> << (s + 1) % NumWords >>, sk |-> << s >>]

\* the secret the public key was made from
SecretOf(pk) == (pk[1] + NumWords - 1) % NumWords

indcpa_enc(m, pk, coins) ==
    << coins[1], (m[1] + (coins[1] + 1) * SecretOf(pk)) % NumWords >>

indcpa_dec(c, sk) ==
    << (c[2] + NumWords * NumWords - (c[1] + 1) * sk[1]) % NumWords >>

\* --------------------------------------------- uninitialised memory
\* a cell no statement has written yet
Uninit == 0 - 1

\* an automatic array as the function finds it on entry
Fresh(n) == [i \in 1..n |-> Uninit]

\* reading cells nobody wrote yields whatever the stack held: junk[i]
Fill(mem, junk) == [i \in 1..Len(mem) |-> IF mem[i] = Uninit THEN junk[i] ELSE mem[i]]

\* how many of the cells a statement reads nobody has written
Stale(cells) == Cardinality({ i \in 1..Len(cells) : cells[i] = Uninit })

\* ================================================================ kem.c
\* Every function returns its status, the caller's buffers as it leaves
\* them, and its automatic arrays as they are when it returns; ops lists
\* the primitives it called with the length each was told to work on, and
\* stale counts the cells of its automatic arrays it read before writing.

\* rk: the coins indcpa_keypair draws; rz: the bytes randombytes delivers
crypto_kem_keypair(pk, sk, rk, rz) ==
    LET kp  == indcpa_keygen(rk)
        pk1 == Store(pk, 0, kp.pk)
        sk1 == Store(sk, 0, kp.sk)
        sk2 == Store(sk1, KYBER_INDCPA_SECRETKEYBYTES, Sub(pk1, 0, KYBER_INDCPA_PUBLICKEYBYTES))
        sk3 == Store(sk2, KYBER_SECRETKEYBYTES - 2*KYBER_SYMBYTES, hash_h(Sub(pk1, 0, KYBER_PUBLICKEYBYTES)))
        sk4 == Store(sk3, KYBER_SECRETKEYBYTES - KYBER_SYMBYTES, Sub(rz, 0, KYBER_SYMBYTES))
    IN  [rc |-> 0, pk |-> pk1, sk |-> sk4]

\* crypto_kem_keypair_based_on_input with z derived from the seed by H
crypto_kem_keypair_based_on_input_hashed_z(key_input, pk, sk) ==
    LET kp  == indcpa_keygen(key_input[1])
        pk1 == Store(pk, 0, kp.pk)
        sk1 == Store(sk, 0, kp.sk)
        sk2 == Store(sk1, KYBER_INDCPA_SECRETKEYBYTES, Sub(pk1, 0, KYBER_INDCPA_PUBLICKEYBYTES))
        sk3 == Store(sk2, KYBER_SECRETKEYBYTES - 2*KYBER_SYMBYTES, hash_h(Sub(pk1, 0, KYBER_PUBLICKEYBYTES)))
        hash_of_y_x == Store(Fresh(2*KYBER_SYMBYTES), 0, Sub(key_input, 0, CopyLoopCells))
        sk4 == Store(sk3, KYBER_SECRETKEYBYTES - KYBER_SYMBYTES, hash_h(Sub(hash_of_y_x, 0, KYBER_SYMBYTES)))
    IN  [rc |-> 0, pk |-> pk1, sk |-> sk4]

crypto_kem_keypair_based_on_input(key_input, pk, sk) ==
    LET kp  == indcpa_keygen(key_input[1])
        pk1 == Store(pk, 0, kp.pk)
        sk1 == Store(sk, 0, kp.sk)
        sk2 == Store(sk1, KYBER_INDCPA_SECRETKEYBYTES, Sub(pk1, 0, KYBER_INDCPA_PUBLICKEYBYTES))
        sk3 == Store(sk2, KYBER_SECRETKEYBYTES - 2*KYBER_SYMBYTES, hash_h(Sub(pk1, 0, KYBER_PUBLICKEYBYTES)))
        hash_of_y_x == Store(Fresh(2*KYBER_SYMBYTES), 0, Sub(key_input, 0, CopyLoopCells))
        sk4 == Store(sk3, KYBER_SECRETKEYBYTES - KYBER_SYMBYTES, Sub(hash_of_y_x, 0, KYBER_SYMBYTES))
    IN  [rc |-> 0, pk |-> pk1, sk |-> sk4]

\* crypto_kem_enc without the overwrite of the coins by H(c)
crypto_kem_enc_keeps_coins(ct, ss, pk, rnd) ==
    LET buf1 == Store(Fresh(2*KYBER_SYMBYTES), 0, Sub(rnd, 0, KYBER_SYMBYTES))
        buf2 == Store(buf1, 0, hash_h(Sub(buf1, 0, KYBER_SYMBYTES)))
        buf3 == Store(buf2, KYBER_SYMBYTES, hash_h(Sub(pk, 0, KYBER_PUBLICKEYBYTES)))
        kr1  == Store(Fresh(2*KYBER_SYMBYTES), 0, hash_g(Sub(buf3, 0, 2*KYBER_SYMBYTES)))
        ct1  == Store(ct, 0, indcpa_enc(Sub(buf3, 0, KYBER_INDCPA_MSGBYTES), pk, Sub(kr1, KYBER_SYMBYTES, KYBER_SYMBYTES)))
        out  == kdf(Sub(kr1, 0, 2*KYBER_SYMBYTES))
    IN  [rc |-> 0, ct |-> ct1, ss |-> Store(ss, 0, out), n |-> Len(out),
         buf |-> buf3, kr |-> kr1, cmp |-> <<>>,
         ops |-> << <<"randombytes", KYBER_SYMBYTES>>, <<"hash_h", KYBER_SYMBYTES>>, <<"hash_h", KYBER_PUBLICKEYBYTES>>,
                    <<"hash_g", 2*KYBER_SYMBYTES>>, <<"indcpa_enc", KYBER_INDCPA_MSGBYTES>>,
                    <<"kdf", 2*KYBER_SYMBYTES>> >>,
         stale |-> Stale(Sub(buf1, 0, KYBER_SYMBYTES)) + Stale(Sub(buf3, 0, 2*KYBER_SYMBYTES)) + Stale(Sub(kr1, 0, 2*KYBER_SYMBYTES))]

\* rnd: the bytes randombytes delivers into buf
crypto_kem_enc(ct, ss, pk, rnd) ==
    LET buf1 == Store(Fresh(2*KYBER_SYMBYTES), 0, Sub(rnd, 0, KYBER_SYMBYTES))
        buf2 == Store(buf1, 0, hash_h(Sub(buf1, 0, KYBER_SYMBYTES)))
        buf3 == Store(buf2, KYBER_SYMBYTES, hash_h(Sub(pk, 0, KYBER_PUBLICKEYBYTES)))
        kr1  == Store(Fresh(2*KYBER_SYMBYTES), 0, hash_g(Sub(buf3, 0, 2*KYBER_SYMBYTES)))
        ct1  == Store(ct, 0, indcpa_enc(Sub(buf3, 0, KYBER_INDCPA_MSGBYTES), pk, Sub(kr1, KYBER_SYMBYTES, KYBER_SYMBYTES)))
        kr2  == Store(kr1, KYBER_SYMBYTES, hash_h(Sub(ct1, 0, KYBER_CIPHERTEXTBYTES)))
        out  == kdf(Sub(kr2, 0, 2*KYBER_SYMBYTES))
    IN  [rc |-> 0, ct |-> ct1, ss |-> Store(ss, 0, out), n |-> Len(out),
         buf |-> buf3, kr |-> kr2, cmp |-> <<>>,
         ops |-> << <<"randombytes", KYBER_SYMBYTES>>, <<"hash_h", KYBER_SYMBYTES>>, <<"hash_h", KYBER_PUBLICKEYBYTES>>,
                    <<"hash_g", 2*KYBER_SYMBYTES>>, <<"indcpa_enc", KYBER_INDCPA_MSGBYTES>>,
                    <<"hash_h", KYBER_CIPHERTEXTBYTES>>, <<"kdf", 2*KYBER_SYMBYTES>> >>,
         stale |-> Stale(Sub(buf1, 0, KYBER_SYMBYTES)) + Stale(Sub(buf3, 0, 2*KYBER_SYMBYTES)) + Stale(Sub(kr1, KYBER_SYMBYTES, KYBER_SYMBYTES)) + Stale(Sub(kr2, 0, 2*KYBER_SYMBYTES))]

\* junk: what the stack holds where buf and kr are placed
crypto_kem_enc_custom_secret_CPA(input_message, ct, ss, pk, junk) ==
    LET buf1 == Store(Fresh(2*KYBER_SYMBYTES), 0, Sub(input_message, 0, CopyLoopCells))
        kr0  == Fresh(2*KYBER_SYMBYTES)
        coins == Sub(Fill(kr0, junk.kr), KYBER_SYMBYTES, KYBER_SYMBYTES)
        ct1  == Store(ct, 0, indcpa_enc(Sub(buf1, 0, KYBER_INDCPA_MSGBYTES), pk, coins))
        out  == Sub(Fill(buf1, junk.buf), 0, 2*KYBER_SYMBYTES)
    IN  [rc |-> 0, ct |-> ct1, ss |-> Store(ss, 0, out), n |-> Len(out),
         buf |-> buf1, kr |-> kr0, cmp |-> <<>>,
         ops |-> << <<"indcpa_enc", KYBER_INDCPA_MSGBYTES>>, <<"memcpy", 2*KYBER_SYMBYTES>> >>,
         stale |-> Stale(Sub(buf1, 0, KYBER_INDCPA_MSGBYTES)) + Stale(Sub(kr0, KYBER_SYMBYTES, KYBER_SYMBYTES)) + Stale(Sub(buf1, 0, 2*KYBER_SYMBYTES))]

\* crypto_kem_enc_custom_secret_CCA without the hash of the message
crypto_kem_enc_custom_secret_CCA_raw_message(input_message, ct, ss, pk) ==
    LET buf1 == Store(Fresh(2*KYBER_SYMBYTES), 0, Sub(input_message, 0, CopyLoopCells))
        buf3 == Store(buf1, KYBER_SYMBYTES, hash_h(Sub(pk, 0, KYBER_PUBLICKEYBYTES)))
        kr1  == Store(Fresh(2*KYBER_SYMBYTES), 0, hash_g(Sub(buf3, 0, 2*KYBER_SYMBYTES)))
        ct1  == Store(ct, 0, indcpa_enc(Sub(buf3, 0, KYBER_INDCPA_MSGBYTES), pk, Sub(kr1, KYBER_SYMBYTES, KYBER_SYMBYTES)))
        kr2  == Store(kr1, KYBER_SYMBYTES, hash_h(Sub(ct1, 0, KYBER_CIPHERTEXTBYTES)))
        out  == kdf(Sub(kr2, 0, 2*KYBER_SYMBYTES))
    IN  [rc |-> 0, ct |-> ct1, ss |-> Store(ss, 0, out), n |-> Len(out),
         buf |-> buf3, kr |-> kr2, cmp |-> <<>>,
         ops |-> << <<"hash_h", KYBER_PUBLICKEYBYTES>>,
                    <<"hash_g", 2*KYBER_SYMBYTES>>, <<"indcpa_enc", KYBER_INDCPA_MSGBYTES>>,
                    <<"hash_h", KYBER_CIPHERTEXTBYTES>>, <<"kdf", 2*KYBER_SYMBYTES>> >>,
         stale |-> Stale(Sub(buf3, 0, 2*KYBER_SYMBYTES)) + Stale(Sub(kr1, KYBER_SYMBYTES, KYBER_SYMBYTES)) + Stale(Sub(kr2, 0, 2*KYBER_SYMBYTES))]

crypto_kem_enc_custom_secret_CCA(input_message, ct, ss, pk) ==
    LET buf1 == Store(Fresh(2*KYBER_SYMBYTES), 0, Sub(input_message, 0, CopyLoopCells))
        buf2 == Store(buf1, 0, hash_h(Sub(buf1, 0, KYBER_SYMBYTES)))
        buf3 == Store(buf2, KYBER_SYMBYTES, hash_h(Sub(pk, 0, KYBER_PUBLICKEYBYTES)))
        kr1  == Store(Fresh(2*KYBER_SYMBYTES), 0, hash_g(Sub(buf3, 0, 2*KYBER_SYMBYTES)))
        ct1  == Store(ct, 0, indcpa_enc(Sub(buf3, 0, KYBER_INDCPA_MSGBYTES), pk, Sub(kr1, KYBER_SYMBYTES, KYBER_SYMBYTES)))
        kr2  == Store(kr1, KYBER_SYMBYTES, hash_h(Sub(ct1, 0, KYBER_CIPHERTEXTBYTES)))
        out  == kdf(Sub(kr2, 0, 2*KYBER_SYMBYTES))
    IN  [rc |-> 0, ct |-> ct1, ss |-> Store(ss, 0, out), n |-> Len(out),
         buf |-> buf3, kr |-> kr2, cmp |-> <<>>,
         ops |-> << <<"hash_h", KYBER_SYMBYTES>>, <<"hash_h", KYBER_PUBLICKEYBYTES>>,
                    <<"hash_g", 2*KYBER_SYMBYTES>>, <<"indcpa_enc", KYBER_INDCPA_MSGBYTES>>,
                    <<"hash_h", KYBER_CIPHERTEXTBYTES>>, <<"kdf", 2*KYBER_SYMBYTES>> >>,
         stale |-> Stale(Sub(buf1, 0, KYBER_SYMBYTES)) + Stale(Sub(buf3, 0, 2*KYBER_SYMBYTES)) + Stale(Sub(kr1, KYBER_SYMBYTES, KYBER_SYMBYTES)) + Stale(Sub(kr2, 0, 2*KYBER_SYMBYTES))]

\* crypto_kem_dec without the cmov of z over the pre-key
crypto_kem_dec_without_cmov(ss, ct, sk) ==
    LET pk   == Sub(sk, KYBER_INDCPA_SECRETKEYBYTES, KYBER_INDCPA_PUBLICKEYBYTES)
        buf1 == Store(Fresh(2*KYBER_SYMBYTES), 0, indcpa_dec(ct, sk))
        buf2 == Store(buf1, KYBER_SYMBYTES, Sub(sk, KYBER_SECRETKEYBYTES - 2*KYBER_SYMBYTES, KYBER_SYMBYTES))
        kr1  == Store(Fresh(2*KYBER_SYMBYTES), 0, hash_g(Sub(buf2, 0, 2*KYBER_SYMBYTES)))
        cmp  == Store(Fresh(KYBER_CIPHERTEXTBYTES), 0, indcpa_enc(Sub(buf2, 0, KYBER_INDCPA_MSGBYTES), pk, Sub(kr1, KYBER_SYMBYTES, KYBER_SYMBYTES)))
        fail == verify(ct, cmp, KYBER_CIPHERTEXTBYTES)
        kr2  == Store(kr1, KYBER_SYMBYTES, hash_h(Sub(ct, 0, KYBER_CIPHERTEXTBYTES)))
        out  == kdf(Sub(kr2, 0, 2*KYBER_SYMBYTES))
    IN  [rc |-> 0, ss |-> Store(ss, 0, out), n |-> Len(out), fail |-> fail,
         buf |-> buf2, kr |-> kr2, cmp |-> cmp,
         ops |-> << <<"indcpa_dec", KYBER_INDCPA_BYTES>>, <<"memcpy", KYBER_SYMBYTES>>,
                    <<"hash_g", 2*KYBER_SYMBYTES>>, <<"indcpa_enc", KYBER_INDCPA_MSGBYTES>>,
                    <<"verify", KYBER_CIPHERTEXTBYTES>>, <<"hash_h", KYBER_CIPHERTEXTBYTES>>,
                    <<"kdf", 2*KYBER_SYMBYTES>> >>,
         stale |-> Stale(Sub(buf2, 0, 2*KYBER_SYMBYTES)) + Stale(Sub(kr1, KYBER_SYMBYTES, KYBER_SYMBYTES)) + Stale(Sub(cmp, 0, KYBER_CIPHERTEXTBYTES)) + Stale(Sub(kr2, 0, 2*KYBER_SYMBYTES))]

\* crypto_kem_dec with `if (fail) memcpy(kr, z, KYBER_SYMBYTES)` in place of cmov
crypto_kem_dec_branching(ss, ct, sk) ==
    LET pk   == Sub(sk, KYBER_INDCPA_SECRETKEYBYTES, KYBER_INDCPA_PUBLICKEYBYTES)
        buf1 == Store(Fresh(2*KYBER_SYMBYTES), 0, indcpa_dec(ct, sk))
        buf2 == Store(buf1, KYBER_SYMBYTES, Sub(sk, KYBER_SECRETKEYBYTES - 2*KYBER_SYMBYTES, KYBER_SYMBYTES))
        kr1  == Store(Fresh(2*KYBER_SYMBYTES), 0, hash_g(Sub(buf2, 0, 2*KYBER_SYMBYTES)))
        cmp  == Store(Fresh(KYBER_CIPHERTEXTBYTES), 0, indcpa_enc(Sub(buf2, 0, KYBER_INDCPA_MSGBYTES), pk, Sub(kr1, KYBER_SYMBYTES, KYBER_SYMBYTES)))
        fail == verify(ct, cmp, KYBER_CIPHERTEXTBYTES)
        kr2  == Store(kr1, KYBER_SYMBYTES, hash_h(Sub(ct, 0, KYBER_CIPHERTEXTBYTES)))
        kr3  == cmov(kr2, Sub(sk, KYBER_SECRETKEYBYTES - KYBER_SYMBYTES, KYBER_SYMBYTES), KYBER_SYMBYTES, fail)
        out  == kdf(Sub(kr3, 0, 2*KYBER_SYMBYTES))
    IN  [rc |-> 0, ss |-> Store(ss, 0, out), n |-> Len(out), fail |-> fail,
         buf |-> buf2, kr |-> kr3, cmp |-> cmp,
         ops |-> << <<"indcpa_dec", KYBER_INDCPA_BYTES>>, <<"memcpy", KYBER_SYMBYTES>>,
                    <<"hash_g", 2*KYBER_SYMBYTES>>, <<"indcpa_enc", KYBER_INDCPA_MSGBYTES>>,
                    <<"verify", KYBER_CIPHERTEXTBYTES>>, <<"hash_h", KYBER_CIPHERTEXTBYTES>> >>
                    \o (IF fail # 0 THEN << <<"memcpy", KYBER_SYMBYTES>> >> ELSE << >>)
                    \o << <<"kdf", 2*KYBER_SYMBYTES>> >>,
         stale |-> Stale(Sub(buf2, 0, 2*KYBER_SYMBYTES)) + Stale(Sub(kr1, KYBER_SYMBYTES, KYBER_SYMBYTES)) + Stale(Sub(cmp, 0, KYBER_CIPHERTEXTBYTES)) + Stale(Sub(kr3, 0, 2*KYBER_SYMBYTES))]

crypto_kem_dec(ss, ct, sk) ==
    LET pk   == Sub(sk, KYBER_INDCPA_SECRETKEYBYTES, KYBER_INDCPA_PUBLICKEYBYTES)
        buf1 == Store(Fresh(2*KYBER_SYMBYTES), 0, indcpa_dec(ct, sk))
        buf2 == Store(buf1, KYBER_SYMBYTES, Sub(sk, KYBER_SECRETKEYBYTES - 2*KYBER_SYMBYTES, KYBER_SYMBYTES))
        kr1  == Store(Fresh(2*KYBER_SYMBYTES), 0, hash_g(Sub(buf2, 0, 2*KYBER_SYMBYTES)))
        cmp  == Store(Fresh(KYBER_CIPHERTEXTBYTES), 0, indcpa_enc(Sub(buf2, 0, KYBER_INDCPA_MSGBYTES), pk, Sub(kr1, KYBER_SYMBYTES, KYBER_SYMBYTES)))
        fail == verify(ct, cmp, KYBER_CIPHERTEXTBYTES)
        kr2  == Store(kr1, KYBER_SYMBYTES, hash_h(Sub(ct, 0, KYBER_CIPHERTEXTBYTES)))
        kr3  == cmov(kr2, Sub(sk, KYBER_SECRETKEYBYTES - KYBER_SYMBYTES, KYBER_SYMBYTES), KYBER_SYMBYTES, fail)
        out  == kdf(Sub(kr3, 0, 2*KYBER_SYMBYTES))
    IN  [rc |-> 0, ss |-> Store(ss, 0, out), n |-> Len(out), fail |-> fail,
         buf |-> buf2, kr |-> kr3, cmp |-> cmp,
         ops |-> << <<"indcpa_dec", KYBER_INDCPA_BYTES>>, <<"memcpy", KYBER_SYMBYTES>>,
                    <<"hash_g", 2*KYBER_SYMBYTES>>, <<"indcpa_enc", KYBER_INDCPA_MSGBYTES>>,
                    <<"verify", KYBER_CIPHERTEXTBYTES>>, <<"hash_h", KYBER_CIPHERTEXTBYTES>>,
                    <<"cmov", KYBER_SYMBYTES>>, <<"kdf", 2*KYBER_SYMBYTES>> >>,
         stale |-> Stale(Sub(buf2, 0, 2*KYBER_SYMBYTES)) + Stale(Sub(kr1, KYBER_SYMBYTES, KYBER_SYMBYTES)) + Stale(Sub(cmp, 0, KYBER_CIPHERTEXTBYTES)) + Stale(Sub(kr3, 0, 2*KYBER_SYMBYTES))]

\* crypto_kem_dec_custom_secret_CPA deriving the shared secret from the
\* decrypted message by the KDF
crypto_kem_dec_custom_secret_CPA_derived(ss, ct, sk, junk) ==
    LET buf1 == Store(Fresh(2*KYBER_SYMBYTES), 0, indcpa_dec(ct, sk))
        buf2 == Store(buf1, KYBER_SYMBYTES, Sub(sk, KYBER_SECRETKEYBYTES - KYBER_SYMBYTES, KYBER_SYMBYTES))
        out  == kdf(Sub(buf2, 0, 2*KYBER_SYMBYTES))
    IN  [rc |-> 0, ss |-> Store(ss, 0, out), n |-> Len(out), fail |-> 0,
         buf |-> buf2, kr |-> <<>>, cmp |-> <<>>,
         ops |-> << <<"indcpa_dec", KYBER_INDCPA_BYTES>>, <<"memcpy", KYBER_SYMBYTES>>,
                    <<"kdf", 2*KYBER_SYMBYTES>> >>,
         stale |-> Stale(Sub(buf2, 0, 2*KYBER_SYMBYTES))]

\* junk: what the stack holds where buf is placed
crypto_kem_dec_custom_secret_CPA(ss, ct, sk, junk) ==
    LET buf1 == Store(Fresh(2*KYBER_SYMBYTES), 0, indcpa_dec(ct, sk))
        out  == Sub(Fill(buf1, junk.buf), 0, 2*KYBER_SYMBYTES)
    IN  [rc |-> 0, ss |-> Store(ss, 0, out), n |-> Len(out), fail |-> 0,
         buf |-> buf1, kr |-> <<>>, cmp |-> <<>>,
         ops |-> << <<"indcpa_dec", KYBER_INDCPA_BYTES>>, <<"memcpy", 2*KYBER_SYMBYTES>> >>,
         stale |-> Stale(Sub(buf1, 0, 2*KYBER_SYMBYTES))]

\* crypto_kem_dec_custom_secret_CCA rejecting explicitly: an error status
\* and no shared secret when the re-encryption differs
crypto_kem_dec_custom_secret_CCA_rejecting(ss, ct, sk) ==
    LET pk   == Sub(sk, KYBER_INDCPA_SECRETKEYBYTES, KYBER_INDCPA_PUBLICKEYBYTES)
        buf1 == Store(Fresh(2*KYBER_SYMBYTES), 0, indcpa_dec(ct, sk))
        buf2 == Store(buf1, KYBER_SYMBYTES, Sub(sk, KYBER_SECRETKEYBYTES - 2*KYBER_SYMBYTES, KYBER_SYMBYTES))
        kr1  == Store(Fresh(2*KYBER_SYMBYTES), 0, hash_g(Sub(buf2, 0, 2*KYBER_SYMBYTES)))
        cmp  == Store(Fresh(KYBER_CIPHERTEXTBYTES), 0, indcpa_enc(Sub(buf2, 0, KYBER_INDCPA_MSGBYTES), pk, Sub(kr1, KYBER_SYMBYTES, KYBER_SYMBYTES)))
        fail == verify(ct, cmp, KYBER_CIPHERTEXTBYTES)
        kr2  == Store(kr1, KYBER_SYMBYTES, hash_h(Sub(ct, 0, KYBER_CIPHERTEXTBYTES)))
        out  == kdf(Sub(kr2, 0, 2*KYBER_SYMBYTES))
    IN  IF fail # 0
        THEN [rc |-> 0 - 1, ss |-> ss, n |-> 0, fail |-> fail,
              buf |-> buf2, kr |-> kr2, cmp |-> cmp,
              ops |-> << <<"indcpa_dec", KYBER_INDCPA_BYTES>>, <<"memcpy", KYBER_SYMBYTES>>,
                         <<"hash_g", 2*KYBER_SYMBYTES>>, <<"indcpa_enc", KYBER_INDCPA_MSGBYTES>>,
                         <<"verify", KYBER_CIPHERTEXTBYTES>>, <<"hash_h", KYBER_CIPHERTEXTBYTES>> >>,
              stale |-> Stale(Sub(buf2, 0, 2*KYBER_SYMBYTES)) + Stale(Sub(kr1, KYBER_SYMBYTES, KYBER_SYMBYTES)) + Stale(Sub(cmp, 0, KYBER_CIPHERTEXTBYTES))]
        ELSE [rc |-> 0, ss |-> Store(ss, 0, out), n |-> Len(out), fail |-> fail,
              buf |-> buf2, kr |-> kr2, cmp |-> cmp,
              ops |-> << <<"indcpa_dec", KYBER_INDCPA_BYTES>>, <<"memcpy", KYBER_SYMBYTES>>,
                         <<"hash_g", 2*KYBER_SYMBYTES>>, <<"indcpa_enc", KYBER_INDCPA_MSGBYTES>>,
                         <<"verify", KYBER_CIPHERTEXTBYTES>>, <<"hash_h", KYBER_CIPHERTEXTBYTES>>,
                         <<"kdf", 2*KYBER_SYMBYTES>> >>,
              stale |-> Stale(Sub(buf2, 0, 2*KYBER_SYMBYTES)) + Stale(Sub(kr1, KYBER_SYMBYTES, KYBER_SYMBYTES)) + Stale(Sub(cmp, 0, KYBER_CIPHERTEXTBYTES)) + Stale(Sub(kr2, 0, 2*KYBER_SYMBYTES))]

crypto_kem_dec_custom_secret_CCA(ss, ct, sk) ==
    LET pk   == Sub(sk, KYBER_INDCPA_SECRETKEYBYTES, KYBER_INDCPA_PUBLICKEYBYTES)
        buf1 == Store(Fresh(2*KYBER_SYMBYTES), 0, indcpa_dec(ct, sk))
        buf2 == Store(buf1, KYBER_SYMBYTES, Sub(sk, KYBER_SECRETKEYBYTES - 2*KYBER_SYMBYTES, KYBER_SYMBYTES))
        kr1  == Store(Fresh(2*KYBER_SYMBYTES), 0, hash_g(Sub(buf2, 0, 2*KYBER_SYMBYTES)))
        cmp  == Store(Fresh(KYBER_CIPHERTEXTBYTES), 0, indcpa_enc(Sub(buf2, 0, KYBER_INDCPA_MSGBYTES), pk, Sub(kr1, KYBER_SYMBYTES, KYBER_SYMBYTES)))
        fail == verify(ct, cmp, KYBER_CIPHERTEXTBYTES)
        kr2  == Store(kr1, KYBER_SYMBYTES, hash_h(Sub(ct, 0, KYBER_CIPHERTEXTBYTES)))
        kr3  == cmov(kr2, Sub(sk, KYBER_SECRETKEYBYTES - KYBER_SYMBYTES, KYBER_SYMBYTES), KYBER_SYMBYTES, fail)
        out  == kdf(Sub(kr3, 0, 2*KYBER_SYMBYTES))
    IN  [rc |-> 0, ss |-> Store(ss, 0, out), n |-> Len(out), fail |-> fail,
         buf |-> buf2, kr |-> kr3, cmp |-> cmp,
         ops |-> << <<"indcpa_dec", KYBER_INDCPA_BYTES>>, <<"memcpy", KYBER_SYMBYTES>>,
                    <<"hash_g", 2*KYBER_SYMBYTES>>, <<"indcpa_enc", KYBER_INDCPA_MSGBYTES>>,
                    <<"verify", KYBER_CIPHERTEXTBYTES>>, <<"hash_h", KYBER_CIPHERTEXTBYTES>>,
                    <<"cmov", KYBER_SYMBYTES>>, <<"kdf", 2*KYBER_SYMBYTES>> >>,
         stale |-> Stale(Sub(buf2, 0, 2*KYBER_SYMBYTES)) + Stale(Sub(kr1, KYBER_SYMBYTES, KYBER_SYMBYTES)) + Stale(Sub(cmp, 0, KYBER_CIPHERTEXTBYTES)) + Stale(Sub(kr3, 0, 2*KYBER_SYMBYTES))]

\* ============================================== the other backends
\* pqcrystals_kyber768_ref_* and PQCLEAN_KYBER768_AARCH64_crypto_kem_* are
\* declared in kem_kyber_768.c and defined elsewhere: the standard
\* construction (keypair, encapsulate, decapsulate of the specification).
pqcrystals_kyber768_ref_keypair(pk, sk, rk, rz) ==
    LET kp == indcpa_keygen(rk)
    IN  [rc |-> 0, pk |-> kp.pk, sk |-> kp.sk \o kp.pk \o hash_h(kp.pk) \o rz]

pqcrystals_kyber768_ref_enc(ct, ss, pk, rnd) ==
    LET m  == hash_h(rnd)
        d  == hash_h(pk)
        g  == hash_g(m \o d)
        c  == indcpa_enc(m, pk, Sub(g, KYBER_SYMBYTES, KYBER_SYMBYTES))
        k  == kdf(Sub(g, 0, KYBER_SYMBYTES) \o hash_h(c))
    IN  [rc |-> 0, ct |-> c, ss |-> Store(ss, 0, k), n |-> Len(k),
         buf |-> <<>>, kr |-> <<>>, cmp |-> <<>>,
         ops |-> << <<"randombytes", KYBER_SYMBYTES>>, <<"hash_h", KYBER_SYMBYTES>>, <<"hash_h", KYBER_PUBLICKEYBYTES>>,
                    <<"hash_g", 2*KYBER_SYMBYTES>>, <<"indcpa_enc", KYBER_INDCPA_MSGBYTES>>,
                    <<"hash_h", KYBER_CIPHERTEXTBYTES>>, <<"kdf", 2*KYBER_SYMBYTES>> >>,
         stale |-> 0]

pqcrystals_kyber768_ref_dec(ss, ct, sk) ==
    LET sk0 == Sub(sk, 0, KYBER_INDCPA_SECRETKEYBYTES)
        pk  == Sub(sk, KYBER_INDCPA_SECRETKEYBYTES, KYBER_INDCPA_PUBLICKEYBYTES)
        d   == Sub(sk, KYBER_INDCPA_SECRETKEYBYTES + KYBER_INDCPA_PUBLICKEYBYTES, KYBER_SYMBYTES)
        z   == Sub(sk, KYBER_INDCPA_SECRETKEYBYTES + KYBER_INDCPA_PUBLICKEYBYTES + KYBER_SYMBYTES, KYBER_SYMBYTES)
        m   == indcpa_dec(ct, sk0)
        g   == hash_g(m \o d)
        c   == indcpa_enc(m, pk, Sub(g, KYBER_SYMBYTES, KYBER_SYMBYTES))
        bad == IF c = ct THEN 0 ELSE 1
        k   == kdf((IF bad = 1 THEN z ELSE Sub(g, 0, KYBER_SYMBYTES)) \o hash_h(ct))
    IN  [rc |-> 0, ss |-> Store(ss, 0, k), n |-> Len(k), fail |-> bad,
         buf |-> <<>>, kr |-> <<>>, cmp |-> <<>>,
         ops |-> << <<"indcpa_dec", KYBER_INDCPA_BYTES>>, <<"memcpy", KYBER_SYMBYTES>>,
                    <<"hash_g", 2*KYBER_SYMBYTES>>, <<"indcpa_enc", KYBER_INDCPA_MSGBYTES>>,
                    <<"verify", KYBER_CIPHERTEXTBYTES>>, <<"hash_h", KYBER_CIPHERTEXTBYTES>>,
                    <<"cmov", KYBER_SYMBYTES>>, <<"kdf", 2*KYBER_SYMBYTES>> >>,
         stale |-> 0]

PQCLEAN_KYBER768_AARCH64_crypto_kem_keypair(pk, sk, rk, rz) ==
    pqcrystals_kyber768_ref_keypair(pk, sk, rk, rz)

PQCLEAN_KYBER768_AARCH64_crypto_kem_enc(ct, ss, pk, rnd) ==
    pqcrystals_kyber768_ref_enc(ct, ss, pk, rnd)

PQCLEAN_KYBER768_AARCH64_crypto_kem_dec(ss, ct, sk) ==
    pqcrystals_kyber768_ref_dec(ss, ct, sk)

\* ===================================================== kem_kyber_768.c
\* A process is a build of the library running on a CPU.
Builds == {"avx2", "aarch64", "ref"}

CpuSets == { {}, {"AVX2"}, {"AVX2", "BMI2"}, {"AVX2", "BMI2", "POPCNT"}, {"NEON"} }

Config == [build : Builds, dist : BOOLEAN, cpu : CpuSets]

\* OQS_CPU_has_extension: the capability flag of the CPU the process runs on
OQS_CPU_has_extension(c, ext) == ext \in c.cpu

\* the condition of the avx2 branch, and the queries its && chain makes
Avx2Usable(c) ==
    /\ OQS_CPU_has_extension(c, "AVX2")
    /\ OQS_CPU_has_extension(c, "BMI2")
    /\ OQS_CPU_has_extension(c, "POPCNT")

\* the chain evaluated without short-circuit: always three queries
Avx2Queries_all_three(c) == 3

Avx2Queries(c) ==
    IF ~OQS_CPU_has_extension(c, "AVX2") THEN 1
    ELSE IF ~OQS_CPU_has_extension(c, "BMI2") THEN 2 ELSE 3

\* The preprocessor skeleton every entry point shares: which function the
\* entry point calls (fn) and how many capability queries it makes (q).
\* "none" stands for a branch the entry point does not have.
Dispatch(c, avx2Fn, avx2Else, a64Fn, a64Else, plainFn) ==
    IF c.build = "avx2" THEN
        IF c.dist THEN
            IF Avx2Usable(c) THEN [fn |-> avx2Fn, q |-> Avx2Queries(c)]
                             ELSE [fn |-> avx2Else, q |-> Avx2Queries(c)]
        ELSE [fn |-> avx2Fn, q |-> 0]
    ELSE IF c.build = "aarch64" /\ a64Fn # "none" THEN
        IF c.dist THEN
            IF OQS_CPU_has_extension(c, "NEON") THEN [fn |-> a64Fn, q |-> 1]
                                                ELSE [fn |-> a64Else, q |-> 1]
        ELSE [fn |-> a64Fn, q |-> 0]
    ELSE [fn |-> plainFn, q |-> 0]

Select_keypair(c) ==
    Dispatch(c, "avx2_keypair", "ref_keypair", "aarch64_keypair", "ref_keypair", "ref_keypair")

\* no #elif and no #else: without the avx2 backend the body is empty
Select_keypair_based_on_input(c) ==
    Dispatch(c, "avx2_keypair_based_on_input", "ref_keypair", "none", "none", "none")

Select_encaps(c) ==
    Dispatch(c, "avx2_enc", "ref_enc", "aarch64_enc", "ref_enc", "ref_enc")

Select_encaps_custom_secret_CPA(c) ==
    Dispatch(c, "avx2_enc_custom_secret_CPA", "ref_enc", "aarch64_enc", "ref_enc", "ref_enc")

Select_encaps_custom_secret_CCA(c) ==
    Dispatch(c, "avx2_enc_custom_secret_CCA", "ref_enc", "aarch64_enc", "ref_enc", "ref_enc")

Select_decaps(c) ==
    Dispatch(c, "avx2_dec", "ref_dec", "aarch64_dec", "ref_dec", "ref_dec")

Select_decaps_custom_secret_CPA(c) ==
    Dispatch(c, "avx2_dec_custom_secret_CPA", "ref_dec", "aarch64_dec", "ref_dec", "ref_dec")

Select_decaps_custom_secret_CCA(c) ==
    Dispatch(c, "avx2_dec_custom_secret_CCA", "ref_dec", "aarch64_dec", "ref_dec", "ref_dec")

\* the backend a function belongs to
BackendOf(fn) ==
    IF fn = "none" THEN "none"
    ELSE IF fn \in {"ref_keypair", "ref_enc", "ref_dec"} THEN "ref"
    ELSE IF fn \in {"aarch64_keypair", "aarch64_enc", "aarch64_dec"} THEN "aarch64"
    ELSE "avx2"

\* the call the dispatcher makes, by the name of the function it selected;
\* with "none" the entry point runs off its end: no buffer is written and
\* the status is whatever the return register holds (garbage)
CallKeygen(fn, key_input, pk, sk, rk, rz, garbage) ==
    CASE fn = "avx2_keypair" -> crypto_kem_keypair(pk, sk, rk, rz)
      [] fn = "avx2_keypair_based_on_input" -> crypto_kem_keypair_based_on_input(key_input, pk, sk)
      [] fn = "ref_keypair" -> pqcrystals_kyber768_ref_keypair(pk, sk, rk, rz)
      [] fn = "aarch64_keypair" -> PQCLEAN_KYBER768_AARCH64_crypto_kem_keypair(pk, sk, rk, rz)
      [] OTHER -> [rc |-> garbage, pk |-> pk, sk |-> sk]

CallEnc(fn, input_message, ct, ss, pk, rnd, junk) ==
    CASE fn = "avx2_enc" -> crypto_kem_enc(ct, ss, pk, rnd)
      [] fn = "avx2_enc_custom_secret_CPA" -> crypto_kem_enc_custom_secret_CPA(input_message, ct, ss, pk, junk)
      [] fn = "avx2_enc_custom_secret_CCA" -> crypto_kem_enc_custom_secret_CCA(input_message, ct, ss, pk)
      [] fn = "aarch64_enc" -> PQCLEAN_KYBER768_AARCH64_crypto_kem_enc(ct, ss, pk, rnd)
      [] OTHER -> pqcrystals_kyber768_ref_enc(ct, ss, pk, rnd)

CallDec(fn, ss, ct, sk, junk) ==
    CASE fn = "avx2_dec" -> crypto_kem_dec(ss, ct, sk)
      [] fn = "avx2_dec_custom_secret_CPA" -> crypto_kem_dec_custom_secret_CPA(ss, ct, sk, junk)
      [] fn = "avx2_dec_custom_secret_CCA" -> crypto_kem_dec_custom_secret_CCA(ss, ct, sk)
      [] fn = "aarch64_dec" -> PQCLEAN_KYBER768_AARCH64_crypto_kem_dec(ss, ct, sk)
      [] OTHER -> pqcrystals_kyber768_ref_dec(ss, ct, sk)

\* ================================================================ state
\* the most key generations one run performs
MaxKeygens == 2

\* cells of the caller's memory that lie right behind a shared-secret buffer
AdjacentCells == 1

\* the builds and machines a process can be: a non-distribution build runs
\* on the machine it was compiled for, an x86 build sees no NEON flag
Processes ==
    { c \in Config :
        \/ c.build = "avx2" /\ "NEON" \notin c.cpu /\ (~c.dist => c.cpu = {"AVX2", "BMI2", "POPCNT"})
        \/ c.build = "aarch64" /\ c.cpu \subseteq {"NEON"} /\ (~c.dist => c.cpu = {"NEON"})
        \/ c.build = "ref" /\ c.cpu = {} }

\* what the stack holds where a function places buf and kr; each function
\* reads at most one cell of an array before writing it, so one value per
\* array covers every outcome
Junk ==
    { [buf |-> [i \in 1..2*KYBER_SYMBYTES |-> jb], kr |-> [i \in 1..2*KYBER_SYMBYTES |-> jk]] :
        jb \in Word, jk \in Word }

\* what the stack holds where crypto_kem_dec_custom_secret_CPA places buf
JunkBuf == { [buf |-> [i \in 1..2*KYBER_SYMBYTES |-> jb]] : jb \in Word }

\* the stack of a function that writes every cell before it reads it
NoJunk == [buf |-> Fresh(2*KYBER_SYMBYTES), kr |-> Fresh(2*KYBER_SYMBYTES)]

\* the configuration pairs of a cross-backend exchange
CrossProcesses ==
    { c \in Processes : c.dist /\ c.cpu \in { {}, {"AVX2", "BMI2", "POPCNT"}, {"NEON"} }
                                /\ (c.build = "aarch64" => c.cpu = {"NEON"}) }

Pairs ==
    { f \in [{"R", "S"} -> Processes] :
        f.R = f.S \/ (f.R \in CrossProcesses /\ f.S \in CrossProcesses) }

\* the functions that call randombytes (kem.c 31 and 91; keypair and
\* encapsulate of the specification in the other backends)
UsesRandom(fn) ==
    fn \in {"avx2_keypair", "ref_keypair", "aarch64_keypair", "avx2_enc", "ref_enc", "aarch64_enc"}

\* what a randombytes call of a run can do: deliver (TRUE) or fail (FALSE)
RandomOutcomes(e) == IF e = "failing" THEN BOOLEAN ELSE {TRUE}

\* a call as the caller and the stack see it once it has returned: rng tells
\* how the random source fared, rand holds the bytes it delivered, frame the
\* automatic arrays the function left behind
NoCall == [entry |-> "none", fn |-> "none", rc |-> 0, n |-> 0, input |-> <<>>, pk |-> <<>>, sk |-> <<>>,
           rng |-> "unused", rand |-> <<>>, fail |-> 0, ops |-> <<>>, stale |-> 0,
           frame |-> [buf |-> <<>>, kr |-> <<>>, cmp |-> <<>>]]

\* the values worth telling apart for an input of a call: the bytes the
\* random source can deliver to a function that asks for them, the stack
\* contents under the arrays of a function that reads them unwritten, the
\* return register of an entry point that runs off its end
RandomBytes(fn) == IF UsesRandom(fn) THEN Word ELSE {0}

StackOf(fn) ==
    IF fn = "avx2_enc_custom_secret_CPA" THEN Junk
    ELSE IF fn = "avx2_dec_custom_secret_CPA" THEN JunkBuf
    ELSE {NoJunk}

ReturnRegister(fn) == IF fn = "none" THEN {OQS_SUCCESS, OQS_ERROR} ELSE {OQS_SUCCESS}

\* rng of a call record
RngOf(fn, ok) == IF ~UsesRandom(fn) THEN "unused" ELSE IF ok THEN "ok" ELSE "failed"

VARIABLES
    cfg,            \* cfg.R: the process of the key owner, cfg.S: the process of the sender
    entropy,        \* the random source of the run: "reliable" or "failing"
    pc,             \* how far the exchange has come
    public_key,     \* the caller's buffers (example_kem.c), Uninit until written
    secret_key,
    ciphertext,
    shared_secret_e, \* the sender's shared-secret buffer and the cells behind it
    shared_secret_d, \* the key owner's shared-secret buffer and the cells behind it
    kg,             \* the latest key generation call
    en,             \* the encapsulation call
    de,             \* the decapsulation call
    keygens,        \* key generation calls so far
    firstKBI,       \* the first keypair_based_on_input call of the run
    tampered,       \* the ciphertext was changed in transit
    queries,        \* OQS_CPU_has_extension calls made, per process
    calls           \* public operations called, per process

vars == <<cfg, entropy, pc, public_key, secret_key, ciphertext, shared_secret_e, shared_secret_d,
          kg, en, de, keygens, firstKBI, tampered, queries, calls>>

Start ==
    /\ cfg \in Pairs
    /\ pc = "start"
    /\ public_key = Fresh(KYBER_PUBLICKEYBYTES)
    /\ secret_key = Fresh(KYBER_SECRETKEYBYTES)
    /\ ciphertext = Fresh(KYBER_CIPHERTEXTBYTES)
    /\ shared_secret_e = Fresh(KYBER_SSBYTES + AdjacentCells)
    /\ shared_secret_d = Fresh(KYBER_SSBYTES + AdjacentCells)
    /\ kg = NoCall
    /\ en = NoCall
    /\ de = NoCall
    /\ keygens = 0
    /\ firstKBI = NoCall
    /\ tampered = FALSE
    /\ queries = [p \in {"R", "S"} |-> 0]
    /\ calls = [p \in {"R", "S"} |-> 0]

\* a run whose random source delivers on every call
Init == Start /\ entropy = "reliable"

Count(p, sel) ==
    /\ queries' = [queries EXCEPT ![p] = @ + sel.q]
    /\ calls' = [calls EXCEPT ![p] = @ + 1]

\* ---------------------------------------------------- key generation
\* the key owner generates (or replaces) its key pair
\* rz: what the destination of randombytes holds when randombytes returns,
\* the bytes it delivered or, when it failed (ok = FALSE), what was there
Keygen(entry, sel, key_input, rk, rz, garbage, ok) ==
    LET r == IF ~ok /\ UsesRandom(sel.fn) /\ BackendOf(sel.fn) # "avx2"
             THEN [rc |-> OQS_ERROR, pk |-> public_key, sk |-> secret_key]
             ELSE CallKeygen(sel.fn, key_input, public_key, secret_key, rk, rz, garbage)
        call == [entry |-> entry, fn |-> sel.fn, rc |-> r.rc, n |-> 0,
                 input |-> key_input, pk |-> r.pk, sk |-> r.sk,
                 rng |-> RngOf(sel.fn, ok),
                 rand |-> IF UsesRandom(sel.fn) /\ ok THEN rz ELSE <<>>,
                 fail |-> 0, ops |-> <<>>, stale |-> 0,
                 frame |-> [buf |-> <<>>, kr |-> <<>>, cmp |-> <<>>]]
    IN  /\ pc \in {"start", "keyed"}
        /\ keygens < MaxKeygens
        /\ public_key' = r.pk
        /\ secret_key' = r.sk
        /\ kg' = call
        /\ keygens' = keygens + 1
        /\ firstKBI' = IF entry = "keypair_based_on_input" /\ firstKBI = NoCall
                       THEN call ELSE firstKBI
        /\ pc' = IF r.pk[1] = Uninit THEN "start" ELSE "keyed"
        /\ Count("R", sel)
        /\ UNCHANGED <<cfg, entropy, ciphertext, shared_secret_e, shared_secret_d, en, de, tampered>>

OQS_KEM_kyber_768_keypair ==
    \E rk \in RandomBytes(Select_keypair(cfg.R).fn), rz \in RandomBytes(Select_keypair(cfg.R).fn),
       ok \in RandomOutcomes(entropy) :
        Keygen("keypair", Select_keypair(cfg.R), <<>>, rk, <<rz>>, 0, ok)

OQS_KEM_kyber_768_keypair_based_on_input ==
    \E seed \in Word,
       rk \in RandomBytes(Select_keypair_based_on_input(cfg.R).fn),
       rz \in RandomBytes(Select_keypair_based_on_input(cfg.R).fn),
       garbage \in ReturnRegister(Select_keypair_based_on_input(cfg.R).fn),
       ok \in RandomOutcomes(entropy) :
        Keygen("keypair_based_on_input", Select_keypair_based_on_input(cfg.R),
               <<seed>>, rk, <<rz>>, garbage, ok)

\* ------------------------------------------------------ encapsulation
\* the sender encapsulates to the public key it was given
\* rnd: what buf holds when randombytes returns, the bytes it delivered or,
\* when it failed (ok = FALSE), what the stack held there;
\* the caller goes on to decapsulate only after a success status
Encaps(entry, sel, input_message, rnd, junk, ok) ==
    LET r == IF ~ok /\ UsesRandom(sel.fn) /\ BackendOf(sel.fn) # "avx2"
             THEN [rc |-> OQS_ERROR, ct |-> ciphertext, ss |-> shared_secret_e, n |-> 0,
                   buf |-> <<>>, kr |-> <<>>, cmp |-> <<>>, ops |-> <<>>, stale |-> 0]
             ELSE CallEnc(sel.fn, input_message, ciphertext, shared_secret_e, public_key, rnd, junk)
    IN  /\ pc = "keyed"
        /\ ciphertext' = r.ct
        /\ shared_secret_e' = r.ss
        /\ en' = [entry |-> entry, fn |-> sel.fn, rc |-> r.rc, n |-> r.n,
                  input |-> input_message, pk |-> public_key, sk |-> <<>>,
                  rng |-> RngOf(sel.fn, ok),
                  rand |-> IF UsesRandom(sel.fn) /\ ok THEN rnd ELSE <<>>,
                  fail |-> 0, ops |-> r.ops, stale |-> r.stale,
                  frame |-> [buf |-> r.buf, kr |-> r.kr, cmp |-> r.cmp]]
        /\ pc' = IF r.rc = OQS_SUCCESS THEN "encapsulated" ELSE "done"
        /\ Count("S", sel)
        /\ UNCHANGED <<cfg, entropy, public_key, secret_key, shared_secret_d, kg, de, keygens,
                       firstKBI, tampered>>

OQS_KEM_kyber_768_encaps ==
    \E rnd \in RandomBytes(Select_encaps(cfg.S).fn), ok \in RandomOutcomes(entropy) :
        Encaps("encaps", Select_encaps(cfg.S), <<>>, <<rnd>>, NoJunk, ok)

OQS_KEM_kyber_768_encaps_custom_secret_CPA ==
    \E m \in Word, rnd \in RandomBytes(Select_encaps_custom_secret_CPA(cfg.S).fn),
       junk \in StackOf(Select_encaps_custom_secret_CPA(cfg.S).fn), ok \in RandomOutcomes(entropy) :
        Encaps("encaps_custom_secret_CPA", Select_encaps_custom_secret_CPA(cfg.S), <<m>>, <<rnd>>, junk, ok)

OQS_KEM_kyber_768_encaps_custom_secret_CCA ==
    \E m \in Word, rnd \in RandomBytes(Select_encaps_custom_secret_CCA(cfg.S).fn),
       ok \in RandomOutcomes(entropy) :
        Encaps("encaps_custom_secret_CCA", Select_encaps_custom_secret_CCA(cfg.S), <<m>>, <<rnd>>, NoJunk, ok)

\* the key owner receives a ciphertext no encapsulation produced for its key
Forge ==
    \E c \in [1..KYBER_CIPHERTEXTBYTES -> Word] :
        /\ pc = "keyed"
        /\ ciphertext' = c
        /\ tampered' = TRUE
        /\ pc' = "encapsulated"
        /\ UNCHANGED <<cfg, entropy, public_key, secret_key, shared_secret_e, shared_secret_d,
                       kg, en, de, keygens, firstKBI, queries, calls>>

\* ------------------------------------------------------ decapsulation
Decaps(entry, sel, junk) ==
    LET r == CallDec(sel.fn, shared_secret_d, ciphertext, secret_key, junk)
    IN  /\ pc = "encapsulated"
        /\ shared_secret_d' = r.ss
        /\ de' = [entry |-> entry, fn |-> sel.fn, rc |-> r.rc, n |-> r.n,
                  input |-> ciphertext, pk |-> <<>>, sk |-> <<>>,
                  rng |-> "unused", rand |-> <<>>,
                  fail |-> r.fail, ops |-> r.ops, stale |-> r.stale,
                  frame |-> [buf |-> r.buf, kr |-> r.kr, cmp |-> r.cmp]]
        /\ pc' = "done"
        /\ Count("R", sel)
        /\ UNCHANGED <<cfg, entropy, public_key, secret_key, ciphertext, shared_secret_e, kg, en,
                       keygens, firstKBI, tampered>>

OQS_KEM_kyber_768_decaps ==
    Decaps("decaps", Select_decaps(cfg.R), NoJunk)

OQS_KEM_kyber_768_decaps_custom_secret_CPA ==
    \E junk \in StackOf(Select_decaps_custom_secret_CPA(cfg.R).fn) :
        Decaps("decaps_custom_secret_CPA", Select_decaps_custom_secret_CPA(cfg.R), junk)

OQS_KEM_kyber_768_decaps_custom_secret_CCA ==
    Decaps("decaps_custom_secret_CCA", Select_decaps_custom_secret_CCA(cfg.R), NoJunk)

\* one exchange: a key generation, an encapsulation or a forged ciphertext,
\* a decapsulation
Next ==
    \/ pc = "start" /\ keygens = 0 /\ OQS_KEM_kyber_768_keypair
    \/ pc = "start" /\ keygens = 0 /\ OQS_KEM_kyber_768_keypair_based_on_input
    \/ OQS_KEM_kyber_768_encaps
    \/ OQS_KEM_kyber_768_encaps_custom_secret_CPA
    \/ OQS_KEM_kyber_768_encaps_custom_secret_CCA
    \/ Forge
    \/ OQS_KEM_kyber_768_decaps
    \/ OQS_KEM_kyber_768_decaps_custom_secret_CPA
    \/ OQS_KEM_kyber_768_decaps_custom_secret_CCA

Spec == Init /\ [][Next]_vars

\* repeated key generation in one process
InitKeygen == Init /\ cfg.R = cfg.S

NextKeygen ==
    \/ OQS_KEM_kyber_768_keypair
    \/ OQS_KEM_kyber_768_keypair_based_on_input

SpecKeygen == InitKeygen /\ [][NextKeygen]_vars

\* a run whose random source can fail on any call
InitRandom == Start /\ entropy = "failing"

SpecRandom == InitRandom /\ [][Next]_vars

\* =============================================================== claims
\* the parts of a secret key, by the layout of params.h
SkPart(sk) ==
    [sk0 |-> Sub(sk, 0, KYBER_INDCPA_SECRETKEYBYTES),
     pk  |-> Sub(sk, KYBER_INDCPA_SECRETKEYBYTES, KYBER_INDCPA_PUBLICKEYBYTES),
     d   |-> Sub(sk, KYBER_SECRETKEYBYTES - 2*KYBER_SYMBYTES, KYBER_SYMBYTES),
     z   |-> Sub(sk, KYBER_SECRETKEYBYTES - KYBER_SYMBYTES, KYBER_SYMBYTES)]

\* the shared secret a buffer holds
Secret(mem) == Sub(mem, 0, KYBER_SSBYTES)

\* the message the key owner decrypts, and what re-encrypting it gives
Decrypted == indcpa_dec(ciphertext, SkPart(secret_key).sk0)

ReG == hash_g(Decrypted \o SkPart(secret_key).d)

ReEncrypted == indcpa_enc(Decrypted, SkPart(secret_key).pk, <<ReG[2]>>)

\* the shared secret of the standard encapsulation run on message m under pk
Pipeline(m, pk) ==
    LET mh == hash_h(m)
        g  == hash_g(mh \o hash_h(pk))
        c  == indcpa_enc(mh, pk, <<g[2]>>)
    IN  kdf(<<g[1]>> \o hash_h(c))

\* the key owner decapsulated the ciphertext the sender made for its key
Untouched == pc = "done" /\ ~tampered /\ en.entry # "none"

\* C1: with a key pair made by keypair and a ciphertext made by encapsulate
\* for its public key, decapsulate returns the shared secret encapsulate
\* returned.
RoundTripStandard ==
    (Untouched /\ kg.entry = "keypair" /\ en.entry = "encaps" /\ de.entry = "decaps")
        => /\ de.rc = OQS_SUCCESS
           /\ Secret(shared_secret_d) = Secret(shared_secret_e)

RoundTripStandardWitness ==
    /\ Untouched /\ kg.entry = "keypair" /\ en.entry = "encaps" /\ de.entry = "decaps"
    /\ kg.fn = "avx2_keypair" /\ en.fn = "avx2_enc" /\ de.fn = "avx2_dec"
    /\ ReEncrypted = ciphertext

\* C2: decapsulate returns KDF(z || H(ct)) when re-encrypting the decrypted
\* message does not give ct back, and KDF(first half of G(m' || d) || H(ct))
\* when it does; in the second case the result is the same whatever z is.
ImplicitRejection ==
    (pc = "done" /\ de.entry = "decaps")
        => /\ ReEncrypted # ciphertext
                => Secret(shared_secret_d) = kdf(SkPart(secret_key).z \o hash_h(ciphertext))
           /\ ReEncrypted = ciphertext
                => /\ Secret(shared_secret_d) = kdf(<<ReG[1]>> \o hash_h(ciphertext))
                   /\ \A z2 \in Word :
                        Secret(CallDec(de.fn, shared_secret_d, ciphertext,
                                       Store(secret_key, KYBER_SECRETKEYBYTES - KYBER_SYMBYTES, <<z2>>),
                                       NoJunk).ss)
                            = Secret(shared_secret_d)

ImplicitRejectionWitness ==
    /\ pc = "done" /\ de.entry = "decaps" /\ de.fn = "avx2_dec"
    /\ tampered
    /\ ReEncrypted # ciphertext
    /\ SkPart(secret_key).z # <<ReG[1]>>

\* C3: each of the three decapsulation operations returns the success
\* status and has written a shared secret, whatever ciphertext it was given.
DecapsNeverFails ==
    pc = "done"
        => /\ de.rc = OQS_SUCCESS
           /\ de.n >= KYBER_SSBYTES
           /\ \A i \in 1..KYBER_SSBYTES : shared_secret_d[i] \in Word

DecapsNeverFailsWitness ==
    /\ pc = "done" /\ tampered
    /\ de.fn = "avx2_dec_custom_secret_CCA"
    /\ ReEncrypted # ciphertext
    /\ de.rc = OQS_SUCCESS

CPAIdentity ==
    en.entry = "encaps_custom_secret_CPA" => Secret(shared_secret_e) = en.input

\* C6: every encapsulation and decapsulation writes exactly KYBER_SSBYTES
\* into the caller's shared-secret buffer and nothing behind it.
FixedSizes ==
    /\ en.entry # "none"
        => /\ en.n = KYBER_SSBYTES
           /\ \A i \in 1..AdjacentCells : shared_secret_e[KYBER_SSBYTES + i] = Uninit
    /\ de.entry # "none"
        => /\ de.n = KYBER_SSBYTES
           /\ \A i \in 1..AdjacentCells : shared_secret_d[KYBER_SSBYTES + i] = Uninit

\* the decapsulation operation that belongs to an encapsulation operation
Matching ==
    \/ en.entry = "encaps" /\ de.entry = "decaps"
    \/ en.entry = "encaps_custom_secret_CPA" /\ de.entry = "decaps_custom_secret_CPA"
    \/ en.entry = "encaps_custom_secret_CCA" /\ de.entry = "decaps_custom_secret_CCA"

\* C7: a ciphertext made by an encapsulation operation in one process
\* decapsulates, through the matching operation in a process that selects
\* another backend, to the shared secret the sender holds.
CrossBackend ==
    (Untouched /\ kg.fn # "none" /\ Matching)
        => Secret(shared_secret_d) = Secret(shared_secret_e)

\* C8: two keypair_from_seed calls with the same seed return the same key
\* pair and the success status, in every build and on every CPU.
SeedDeterministic ==
    (firstKBI # NoCall /\ kg.entry = "keypair_based_on_input" /\ kg.input = firstKBI.input)
        => /\ kg.rc = OQS_SUCCESS /\ firstKBI.rc = OQS_SUCCESS
           /\ kg.pk = firstKBI.pk
           /\ kg.sk = firstKBI.sk

\* the process lacks what its accelerated backend needs
MustFallBack(c) ==
    \/ c.build = "ref"
    \/ c.build = "avx2" /\ c.dist /\ ~({"AVX2", "BMI2", "POPCNT"} \subseteq c.cpu)
    \/ c.build = "aarch64" /\ c.dist /\ "NEON" \notin c.cpu

Delegated(call, c) ==
    call.entry # "none"
        => /\ call.fn # "none"
           /\ MustFallBack(c) => BackendOf(call.fn) = "ref"

\* C9: every operation delegates to a backend, and to the reference backend
\* when no accelerated backend is compiled in or the CPU lacks its features.
FallbackPolicy ==
    /\ Delegated(kg, cfg.R)
    /\ Delegated(en, cfg.S)
    /\ Delegated(de, cfg.R)

QueriesPerCall(c, call) ==
    IF call.entry = "none" \/ ~c.dist \/ c.build = "ref" THEN 0
    ELSE IF c.build = "aarch64"
         THEN (IF call.entry = "keypair_based_on_input" THEN 0 ELSE 1)
    ELSE IF "AVX2" \notin c.cpu THEN 1
    ELSE IF "BMI2" \notin c.cpu THEN 2 ELSE 3

RandomFailurePropagated ==
    \A call \in {kg, en} :
        call.rng = "failed" => call.rc # OQS_SUCCESS

\* an automatic array that was written during the call holds only zeros
Scrubbed(mem) ==
    (\E i \in 1..Len(mem) : mem[i] # Uninit) => \A i \in 1..Len(mem) : mem[i] = 0

\* C12: when an encapsulation or decapsulation function of kem.c returns,
\* its scratch arrays buf, kr and cmp have been zeroed.
ScratchScrubbed ==
    \A call \in {en, de} :
        (call.entry # "none" /\ BackendOf(call.fn) = "avx2")
            => /\ Scrubbed(call.frame.buf)
               /\ Scrubbed(call.frame.kr)
               /\ Scrubbed(call.frame.cmp)

\* sk0 is the primitive's secret key for pk: it decrypts what pk encrypts
PrimitivePair(pk, sk0) ==
    \A m \in Word, coins \in Word :
        indcpa_dec(indcpa_enc(<<m>>, pk, <<coins>>), sk0) = <<m>>

Ciphertexts == [1..KYBER_CIPHERTEXTBYTES -> Word]

\* the run of the decapsulation function fn on ciphertext c under the
\* secret key of the state
DecRun(fn, c) ==
    CallDec(fn, Fresh(KYBER_SSBYTES + AdjacentCells), c, secret_key, NoJunk)

\* the primitives among the steps of a call, in the order of the calls
RECURSIVE Primitives(_)
Primitives(ops) ==
    IF ops = <<>> THEN <<>>
    ELSE (IF Head(ops)[1] = "memcpy" THEN <<>> ELSE <<Head(ops)[1]>>) \o Primitives(Tail(ops))

\* C14: a run of crypto_kem_dec (or crypto_kem_dec_custom_secret_CCA) whose
\* re-encryption check fails and one whose check passes call the same
\* primitives in the same order (indcpa_dec, hash_g, indcpa_enc, verify over
\* KYBER_CIPHERTEXTBYTES, hash_h, cmov, kdf) with the same lengths and
\* return the same status.
BranchFree ==
    (pc = "done" /\ de.fn \in {"avx2_dec", "avx2_dec_custom_secret_CCA"})
        => /\ Primitives(de.ops) = <<"indcpa_dec", "hash_g", "indcpa_enc", "verify",
                                     "hash_h", "cmov", "kdf">>
           /\ \E i \in 1..Len(de.ops) : de.ops[i] = <<"verify", KYBER_CIPHERTEXTBYTES>>
           /\ \A c \in Ciphertexts :
                LET other == DecRun(de.fn, c)
                IN  /\ other.ops = de.ops
                    /\ other.rc = de.rc
                    /\ other.n = de.n

BranchFreeWitness ==
    /\ pc = "done"
    /\ de.fn = "avx2_dec"
    /\ de.fail = 1
    /\ \E c \in Ciphertexts : DecRun(de.fn, c).fail = 0

\* C15: decapsulate_cca_custom and the standard decapsulate agree on every
\* (ct, sk): the same steps, the same shared secret, the same status.
DecapsCCAEquivalent ==
    /\ pc = "keyed"
        => \A c \in Ciphertexts :
                /\ DecRun(Select_decaps_custom_secret_CCA(cfg.R).fn, c)
                        = DecRun(Select_decaps(cfg.R).fn, c)
                /\ DecRun("avx2_dec_custom_secret_CCA", c) = DecRun("avx2_dec", c)
    /\ (pc = "done" /\ de.entry \in {"decaps", "decaps_custom_secret_CCA"})
        => /\ crypto_kem_dec_custom_secret_CCA(shared_secret_d, ciphertext, secret_key)
                = crypto_kem_dec(shared_secret_d, ciphertext, secret_key)
           /\ LET other == DecRun(IF de.entry = "decaps"
                                  THEN Select_decaps_custom_secret_CCA(cfg.R).fn
                                  ELSE Select_decaps(cfg.R).fn, ciphertext)
              IN  /\ shared_secret_d = other.ss
                  /\ de.rc = other.rc
                  /\ de.ops = other.ops
                  /\ de.fail = other.fail

DecapsCCAEquivalentWitness ==
    /\ pc = "done"
    /\ de.fn = "avx2_dec_custom_secret_CCA"
    /\ de.fail = 1
    /\ \E c \in Ciphertexts : crypto_kem_dec(shared_secret_d, c, secret_key).fail = 0

NoStaleReads ==
    /\ \A call \in {en, de} :
            (call.entry # "none" /\ BackendOf(call.fn) = "avx2") => call.stale = 0
    /\ (pc = "encapsulated"
            /\ en.fn \in {"avx2_enc_custom_secret_CPA", "avx2_enc_custom_secret_CCA"})
        => \A junk \in Junk :
                CallEnc(en.fn, en.input, Fresh(KYBER_CIPHERTEXTBYTES),
                        Fresh(KYBER_SSBYTES + AdjacentCells), en.pk, <<>>, junk).ct = ciphertext

====
